---- MODULE Spec2Model ----
(***************************************************************************)
(* Authentication and role-based authorization engine of Frey.             *)
(*                                                                         *)
(* Modelled parts of packages/frey/src:                                    *)
(*   - the RBAC evaluator (getRolePermission, checkRbacPermission,         *)
(*     createRbacMiddleware), explored by SpecRbac;                        *)
(*   - the route guard (createRouteAuthMiddleware) with its inline         *)
(*     credential resolution, explored by SpecGuard;                       *)
(*   - the preHandler hooks (createJwtMiddleware, createApiKeyMiddleware,  *)
(*     createAuthContextMiddleware) followed by the guard, explored by     *)
(*     SpecHooks;                                                          *)
(*   - the routes registered for an entity (routes/*.ts): their            *)
(*     preHandlers and handler, explored by SpecRoute.                     *)
(*                                                                         *)
(* JavaScript values are modelled by strings and records: the value        *)
(* undefined is the string "undefined", an object is a record with a kind  *)
(* and a field map, callbacks are nondeterministic choices over what they  *)
(* can do (resolve to a value, or throw).                                  *)
(***************************************************************************)
EXTENDS Naturals, FiniteSets, Sequences, TLC

VARIABLES call, rbac, req, guard, hooks, route, roles, peer

vars == <<call, rbac, req, guard, hooks, route, roles, peer>>

(***************************************************************************)
(* Bounds and value universes                                              *)
(***************************************************************************)

\* number of distinct user / owner identifiers
NumIds == 2

Undef == "undefined"

Ids == { "u" \o ToString(i) : i \in 1..NumIds }

\* user.id may be missing (default JWT mapping of a token without sub/id)
UserIds == Ids \cup {Undef}

Ops == {"create", "read", "update", "delete"}

Scopes == {"All", "Own", "Custom"}

\* roles a resolved user may carry; "ghost" is known to no table
UserRoles == {"user", "admin", "moderator", "ghost", Undef}

\* roles that caller configuration (custom roles, entity operations) names
ConfigRoles == {"user", "admin", "moderator"}

\* fields an entity payload may carry
Fields == {"id", "ownerId"}

(***************************************************************************)
(* JavaScript values: payloads                                             *)
(***************************************************************************)

NoFields == [f \in Fields |-> Undef]

JsNull == [kind |-> "null", fields |-> NoFields]

JsUndefined == [kind |-> "undefined", fields |-> NoFields]

JsObject(fs) == [kind |-> "object", fields |-> fs]

EmptyObject == JsObject(NoFields)

\* objects whose fields are absent or hold an identifier
Objects == { JsObject(fs) : fs \in [Fields -> UserIds] }

\* a || b on values that are null, undefined or objects (objects are truthy)
JsOr(a, b) == IF a.kind = "object" THEN a ELSE b

(***************************************************************************)
(* Role tables                                                             *)
(***************************************************************************)

\* the object literal DEFAULT_ROLES is initialised with
DEFAULT_ROLES ==
  [r \in {"user", "admin"} |->
     IF r = "user"
     THEN [o \in Ops |-> IF o = "read" THEN "All" ELSE "Own"]
     ELSE [o \in Ops |-> "All"]]

\* a role's permission entry in customRoles: a PermissionScope string or a
\* Permission object {scope}
NoPermission == [form |-> Undef, scope |-> Undef]

PermissionEntries == [form : {"string", "object"}, scope : Scopes]

\* customRoles[role][operation], undefined when the role or the operation is
\* not configured (customRoles itself absent is the empty table)
CustomCell(customRoles, role, operation) ==
  IF role \in DOMAIN customRoles /\ operation \in DOMAIN customRoles[role]
  THEN customRoles[role][operation]
  ELSE NoPermission

\* an unknown role falling back to the built-in "user" permissions
DefaultCell_FallbackToUser(role, operation) ==
  IF role \in DOMAIN roles.objects
  THEN roles.objects[role][operation]
  ELSE roles.objects["user"][operation]

\* DEFAULT_ROLES[role]?.[operation], read from the objects the module-level
\* table holds when the lookup is made
DefaultCell(role, operation) ==
  IF role \in DOMAIN roles.objects THEN roles.objects[role][operation] ELSE Undef

\* entityRbacConfig?.operations?.[role]?.[operation]
EntityCell(entityRbacConfig, role, operation) ==
  IF /\ entityRbacConfig.present
     /\ role \in DOMAIN entityRbacConfig.operations
     /\ operation \in DOMAIN entityRbacConfig.operations[role]
  THEN entityRbacConfig.operations[role][operation]
  ELSE Undef

\* a custom role shadowing the built-in role as a whole
getRolePermission_PerRole(role, operation, customRoles) ==
  LET permission == CustomCell(customRoles, role, operation)
  IN  IF role \in DOMAIN customRoles
      THEN permission.scope
      ELSE DefaultCell(role, operation)

getRolePermission(role, operation, customRoles) ==
  LET permission == CustomCell(customRoles, role, operation)
  IN  IF role \in DOMAIN customRoles /\ permission.form # Undef
      THEN permission.scope
      ELSE DefaultCell(role, operation)

(***************************************************************************)
(* checkRbacPermission                                                     *)
(***************************************************************************)

\* what a caller-supplied predicate does when it is awaited
CallbackOutcomes == {"true", "false", "throw"}

\* the registry winning over the entity-level override
ResolveScope_RegistryFirst(user, operation, entityRbacConfig, customRoles) ==
  LET role == IF user.role # Undef THEN user.role ELSE "user"
      permissionScope == getRolePermission(role, operation, customRoles)
      override == EntityCell(entityRbacConfig, role, operation)
  IN  IF permissionScope # Undef THEN permissionScope ELSE override

\* the scope the evaluator decides with: the value of permissionScope
\* after the entity-level override
ResolveScope(user, operation, entityRbacConfig, customRoles) ==
  LET role == IF user.role # Undef THEN user.role ELSE "user"
      permissionScope == getRolePermission(role, operation, customRoles)
      override == EntityCell(entityRbacConfig, role, operation)
  IN  IF override # Undef THEN override ELSE permissionScope

\* the ownership comparison ignoring the configured owner field
OwnCheck_IdOnly(user, entityData, entityRbacConfig) ==
  IF entityData.kind # "object"
  THEN "throw"
  ELSE IF entityData.fields["id"] = user.id THEN "true" ELSE "false"

\* entityData[ownerField] === user.id; reading a property of null or
\* undefined throws a TypeError
OwnCheck(user, entityData, entityRbacConfig) ==
  LET ownerField == IF entityRbacConfig.present /\ entityRbacConfig.ownerField # Undef
                    THEN entityRbacConfig.ownerField
                    ELSE "id"
  IN  IF entityData.kind # "object"
      THEN "throw"
      ELSE IF entityData.fields[ownerField] = user.id THEN "true" ELSE "false"

\* a Custom scope without a configured predicate allowing
checkRbacPermission_MissingCheckAllows(user, operation, entityData, entityRbacConfig, customRoles, checkOutcome) ==
  LET permissionScope == ResolveScope(user, operation, entityRbacConfig, customRoles)
  IN  IF permissionScope = Undef
      THEN [result |-> "false", scope |-> Undef, checks |-> 0, check |-> Undef]
      ELSE IF permissionScope = "All"
      THEN [result |-> "true", scope |-> "All", checks |-> 0, check |-> Undef]
      ELSE IF permissionScope = "Own"
      THEN [result |-> OwnCheck(user, entityData, entityRbacConfig),
            scope |-> "Own", checks |-> 0, check |-> Undef]
      ELSE IF entityRbacConfig.present /\ operation \in entityRbacConfig.customChecks
           THEN [result |-> checkOutcome, scope |-> "Custom", checks |-> 1,
                 check |-> checkOutcome]
           ELSE [result |-> "true", scope |-> "Custom", checks |-> 0,
                 check |-> Undef]

\* scope All compared like scope Own
checkRbacPermission_AllChecksOwner(user, operation, entityData, entityRbacConfig, customRoles, checkOutcome) ==
  LET permissionScope == ResolveScope(user, operation, entityRbacConfig, customRoles)
  IN  IF permissionScope = Undef
      THEN [result |-> "false", scope |-> Undef, checks |-> 0, check |-> Undef]
      ELSE IF permissionScope = "All"
      THEN [result |-> OwnCheck(user, entityData, entityRbacConfig),
            scope |-> "All", checks |-> 0, check |-> Undef]
      ELSE IF permissionScope = "Own"
      THEN [result |-> OwnCheck(user, entityData, entityRbacConfig),
            scope |-> "Own", checks |-> 0, check |-> Undef]
      ELSE IF entityRbacConfig.present /\ operation \in entityRbacConfig.customChecks
           THEN [result |-> checkOutcome, scope |-> "Custom", checks |-> 1,
                 check |-> checkOutcome]
           ELSE [result |-> "false", scope |-> "Custom", checks |-> 0,
                 check |-> Undef]

\* the result of checkRbacPermission: the boolean it resolves to or "throw",
\* the scope it decided with, the number of customCheck invocations and what
\* the invoked customCheck did; checkOutcome is what customChecks[operation]
\* does if it is awaited
checkRbacPermission(user, operation, entityData, entityRbacConfig, customRoles, checkOutcome) ==
  LET permissionScope == ResolveScope(user, operation, entityRbacConfig, customRoles)
  IN  IF permissionScope = Undef
      THEN [result |-> "false", scope |-> Undef, checks |-> 0, check |-> Undef]
      ELSE IF permissionScope = "All"
      THEN [result |-> "true", scope |-> "All", checks |-> 0, check |-> Undef]
      ELSE IF permissionScope = "Own"
      THEN [result |-> OwnCheck(user, entityData, entityRbacConfig),
            scope |-> "Own", checks |-> 0, check |-> Undef]
      ELSE IF entityRbacConfig.present /\ operation \in entityRbacConfig.customChecks
           THEN [result |-> checkOutcome, scope |-> "Custom", checks |-> 1,
                 check |-> checkOutcome]
           ELSE [result |-> "false", scope |-> "Custom", checks |-> 0,
                 check |-> Undef]

(***************************************************************************)
(* Users and auth contexts                                                 *)
(***************************************************************************)

NoUser == [present |-> FALSE, id |-> Undef, role |-> Undef]

Users == [present : {TRUE}, id : UserIds, role : UserRoles]

\* AuthContext; an absent request.auth is NoAuth
NoAuth == [present |-> FALSE, isAuthenticated |-> FALSE, user |-> NoUser,
           token |-> Undef, apiKey |-> Undef, authMethod |-> Undef]

Unauthenticated == [present |-> TRUE, isAuthenticated |-> FALSE, user |-> NoUser,
                    token |-> Undef, apiKey |-> Undef, authMethod |-> Undef]

JwtContext(user, token) ==
  [present |-> TRUE, isAuthenticated |-> TRUE, user |-> user,
   token |-> token, apiKey |-> Undef, authMethod |-> "jwt"]

ApiKeyContext(user, apiKey) ==
  [present |-> TRUE, isAuthenticated |-> TRUE, user |-> user,
   token |-> Undef, apiKey |-> apiKey, authMethod |-> "api-key"]

(***************************************************************************)
(* Inputs of the RBAC evaluator                                            *)
(***************************************************************************)

EmptyTable == [r \in {} |-> [o \in {} |-> Undef]]

\* tables naming at most one role with at most one operation
TablesOver(cells) ==
  {EmptyTable}
    \cup { [r \in {r0} |-> [o \in {} |-> Undef]] : r0 \in ConfigRoles }
    \cup { [r \in {x[1]} |-> [o \in {x[2]} |-> x[3]]] :
             x \in ConfigRoles \X Ops \X cells }

CustomTables == TablesOver(PermissionEntries)

EntityTables == TablesOver(Scopes)

NoEntityRbacConfig ==
  [present |-> FALSE, ownerField |-> Undef, operations |-> EmptyTable,
   customChecks |-> {}]

EntityRbacConfigs(tables, ownerFields, checkSets) ==
  [present : {TRUE}, ownerField : ownerFields, operations : tables,
   customChecks : checkSets]

\* a few fixed tables for the runs that vary the payload instead
ModeratorRoles ==
  [r \in {"moderator"} |->
     [o \in {"read", "update", "delete"} |->
        IF o = "read" THEN [form |-> "string", scope |-> "Own"]
        ELSE IF o = "update" THEN [form |-> "object", scope |-> "All"]
        ELSE [form |-> "string", scope |-> "Custom"]]]

UserReadOwn == [r \in {"user"} |-> [o \in {"read"} |-> "Own"]]

\* checkRbacPermission called directly, tables varied
DirectTableCalls ==
  [kind : {"direct"},
   user : [present : {TRUE}, id : {"u1"}, role : UserRoles],
   operation : Ops,
   entityData : {JsNull, JsObject([f \in Fields |-> IF f = "id" THEN "u1" ELSE Undef])},
   params : {EmptyObject}, body : {JsUndefined}, auth : {NoAuth},
   entityRbacConfig : EntityRbacConfigs(EntityTables, {Undef}, {{}, Ops}),
   customRoles : CustomTables]

\* checkRbacPermission called directly, payload and owner field varied
DirectPayloadCalls ==
  [kind : {"direct"},
   user : Users,
   operation : Ops,
   entityData : {JsNull} \cup Objects,
   params : {EmptyObject}, body : {JsUndefined}, auth : {NoAuth},
   entityRbacConfig : {NoEntityRbacConfig} \cup
      EntityRbacConfigs({EmptyTable, UserReadOwn}, {Undef, "ownerId"}, {{}, Ops}),
   customRoles : {EmptyTable, ModeratorRoles}]

\* requests reaching the middleware built by createRbacMiddleware:
\* request.params is always an object, request.body may be undefined
MiddlewareCalls ==
  [kind : {"middleware"},
   user : {NoUser},
   operation : Ops,
   entityData : {JsUndefined},
   params : { JsObject([f \in Fields |-> IF f = "id" THEN i ELSE Undef]) : i \in UserIds },
   body : {JsUndefined} \cup Objects,
   auth : {NoAuth, Unauthenticated}
            \cup { JwtContext(u, "token") : u \in [present : {TRUE}, id : UserIds, role : {"user", "admin", "moderator"}] },
   entityRbacConfig : {NoEntityRbacConfig} \cup
      EntityRbacConfigs({EmptyTable, UserReadOwn}, {Undef, "ownerId"}, {Ops}),
   customRoles : {EmptyTable, ModeratorRoles}]

NoCall == [kind |-> "none"]

RbacIdle ==
  [pc |-> "idle", result |-> Undef, scope |-> Undef, checks |-> 0,
   check |-> Undef, entityData |-> JsUndefined,
   status |-> 0, error |-> Undef, message |-> Undef, statusCode |-> 0,
   sent |-> FALSE, next |-> FALSE]

(***************************************************************************)
(* The built-in table as an object, and the value getDefaultRoles returns  *)
(***************************************************************************)

\* changes a caller makes to a returned value, per run
MaxChanges == 2

\* getDefaultRoles has not been called
NoReturned == [present |-> FALSE, shared |-> {}, own |-> EmptyTable]

\* objects: the permission objects DEFAULT_ROLES.user and DEFAULT_ROLES.admin;
\* returned: the object getDefaultRoles handed out last, whose keys in
\* "shared" hold the very objects of DEFAULT_ROLES and whose keys in "own"
\* hold objects the caller put there
PristineRoles == [objects |-> DEFAULT_ROLES, returned |-> NoReturned, changes |-> 0]

\* permission objects a caller may store under a key of the returned value
CallerRows == { [o \in Ops |-> sc] : sc \in {"All", "Own"} }

NoPeer == [present |-> FALSE]

\* return { ...DEFAULT_ROLES }: a new outer object, the same inner objects
GetDefaultRoles ==
  /\ call.kind \in {"direct", "middleware"}
  /\ rbac.pc = "idle"
  /\ ~roles.returned.present
  /\ roles' = [roles EXCEPT !.returned =
                 [present |-> TRUE, shared |-> DOMAIN roles.objects, own |-> EmptyTable]]
  /\ UNCHANGED <<call, rbac, req, guard, hooks, route, peer>>

\* the caller does returned[role] = {...}: adds a role or replaces one
AssignReturnedRole ==
  /\ roles.returned.present
  /\ rbac.pc = "idle"
  /\ roles.changes < MaxChanges
  /\ \E role \in ConfigRoles, row \in CallerRows :
       roles' = [roles EXCEPT
                   !.returned.shared = @ \ {role},
                   !.returned.own = [r \in DOMAIN @ \cup {role} |-> IF r = role THEN row ELSE @[r]],
                   !.changes = @ + 1]
  /\ UNCHANGED <<call, rbac, req, guard, hooks, route, peer>>

\* the caller does returned[role][operation] = scope
AlterReturnedEntry ==
  /\ roles.returned.present
  /\ rbac.pc = "idle"
  /\ roles.changes < MaxChanges
  /\ \E role \in roles.returned.shared \cup DOMAIN roles.returned.own,
        operation \in Ops, scope \in Scopes :
       roles' = IF role \in roles.returned.shared
                THEN [roles EXCEPT !.objects[role][operation] = scope,
                                   !.changes = @ + 1]
                ELSE [roles EXCEPT !.returned.own[role][operation] = scope,
                                   !.changes = @ + 1]
  /\ UNCHANGED <<call, rbac, req, guard, hooks, route, peer>>

(***************************************************************************)
(* Actions of the RBAC evaluator                                           *)
(***************************************************************************)

\* a direct call of checkRbacPermission (as the unit tests make)
CheckRbacPermission ==
  /\ call.kind = "direct"
  /\ rbac.pc = "idle"
  /\ \E checkOutcome \in CallbackOutcomes :
       LET r == checkRbacPermission(call.user, call.operation, call.entityData,
                                    call.entityRbacConfig, call.customRoles, checkOutcome)
       IN  rbac' = [rbac EXCEPT !.pc = IF r.result = "throw" THEN "raised" ELSE "returned",
                                !.result = r.result, !.scope = r.scope,
                                !.checks = r.checks, !.check = r.check,
                                !.entityData = call.entityData]
  /\ UNCHANGED <<call, req, guard, hooks, route, roles, peer>>

\* the entity data createRbacMiddleware hands to the evaluator
SelectEntityData(operation, params, body) ==
  IF operation \in {"update", "delete"}
  THEN JsOr(params, JsOr(body, EmptyObject))
  ELSE IF operation = "create"
  THEN JsOr(body, EmptyObject)
  ELSE JsNull

\* a denial answered like a missing authentication
RbacMiddleware_DenyAsUnauthorized ==
  /\ call.kind = "middleware"
  /\ rbac.pc = "idle"
  /\ IF ~call.auth.isAuthenticated \/ ~call.auth.user.present
     THEN rbac' = [rbac EXCEPT !.pc = "replied", !.status = 401,
                               !.error = "Unauthorized",
                               !.message = "Authentication required",
                               !.statusCode = 401,
                               !.sent = TRUE]
     ELSE \E checkOutcome \in CallbackOutcomes :
            LET entityData == SelectEntityData(call.operation, call.params, call.body)
                r == checkRbacPermission(call.auth.user, call.operation, entityData,
                                         call.entityRbacConfig, call.customRoles, checkOutcome)
                base == [rbac EXCEPT !.result = r.result, !.scope = r.scope,
                                     !.checks = r.checks, !.check = r.check,
                                     !.entityData = entityData]
            IN  rbac' = IF r.result = "throw"
                        THEN [base EXCEPT !.pc = "raised"]
                        ELSE IF r.result = "false"
                        THEN [base EXCEPT !.pc = "replied", !.status = 401,
                                          !.error = "Unauthorized",
                                          !.message = "Authentication required",
                                          !.statusCode = 401,
                                          !.sent = TRUE]
                        ELSE [base EXCEPT !.pc = "next", !.next = TRUE]
  /\ UNCHANGED <<call, req, guard, hooks, route, roles, peer>>

\* the middleware evaluating without testing for an authenticated user
RbacMiddleware_NoAuthCheck ==
  /\ call.kind = "middleware"
  /\ rbac.pc = "idle"
  /\ IF FALSE
     THEN rbac' = [rbac EXCEPT !.pc = "replied", !.status = 401,
                               !.error = "Unauthorized",
                               !.message = "Authentication required",
                               !.statusCode = 401,
                               !.sent = TRUE]
     ELSE \E checkOutcome \in CallbackOutcomes :
            LET entityData == SelectEntityData(call.operation, call.params, call.body)
                r == checkRbacPermission(call.auth.user, call.operation, entityData,
                                         call.entityRbacConfig, call.customRoles, checkOutcome)
                base == [rbac EXCEPT !.result = r.result, !.scope = r.scope,
                                     !.checks = r.checks, !.check = r.check,
                                     !.entityData = entityData]
            IN  rbac' = IF r.result = "throw"
                        THEN [base EXCEPT !.pc = "raised"]
                        ELSE IF r.result = "false"
                        THEN [base EXCEPT !.pc = "replied", !.status = 403,
                                          !.error = "Forbidden",
                                          !.message = "Insufficient permissions",
                                          !.statusCode = 403,
                                          !.sent = TRUE]
                        ELSE [base EXCEPT !.pc = "next", !.next = TRUE]
  /\ UNCHANGED <<call, req, guard, hooks, route, roles, peer>>

\* the preHandler returned by createRbacMiddleware
RbacMiddleware ==
  /\ call.kind = "middleware"
  /\ rbac.pc = "idle"
  /\ IF ~call.auth.isAuthenticated \/ ~call.auth.user.present
     THEN rbac' = [rbac EXCEPT !.pc = "replied", !.status = 401,
                               !.error = "Unauthorized",
                               !.message = "Authentication required",
                               !.statusCode = 401,
                               !.sent = TRUE]
     ELSE \E checkOutcome \in CallbackOutcomes :
            LET entityData == SelectEntityData(call.operation, call.params, call.body)
                r == checkRbacPermission(call.auth.user, call.operation, entityData,
                                         call.entityRbacConfig, call.customRoles, checkOutcome)
                base == [rbac EXCEPT !.result = r.result, !.scope = r.scope,
                                     !.checks = r.checks, !.check = r.check,
                                     !.entityData = entityData]
            IN  rbac' = IF r.result = "throw"
                        THEN [base EXCEPT !.pc = "raised"]
                        ELSE IF r.result = "false"
                        THEN [base EXCEPT !.pc = "replied", !.status = 403,
                                          !.error = "Forbidden",
                                          !.message = "Insufficient permissions",
                                          !.statusCode = 403,
                                          !.sent = TRUE]
                        ELSE [base EXCEPT !.pc = "next", !.next = TRUE]
  /\ UNCHANGED <<call, req, guard, hooks, route, roles, peer>>

GuardIdle == [pc |-> "idle"]

NoRequest == [kind |-> "none"]

\* no hook is registered
HooksIdle ==
  [pending |-> {}, ran |-> <<>>, wrote |-> {},
   extractUser |-> Undef, validateKey |-> Undef]

\* no route is involved
RouteIdle == [pc |-> "idle"]

InitRbac ==
  /\ roles = PristineRoles
  /\ peer = NoPeer
  /\ call \in DirectTableCalls \cup DirectPayloadCalls \cup MiddlewareCalls
  /\ rbac = RbacIdle
  /\ req = NoRequest
  /\ guard = GuardIdle
  /\ hooks = HooksIdle
  /\ route = RouteIdle

NextRbac == CheckRbacPermission \/ RbacMiddleware

SpecRbac == InitRbac /\ [][NextRbac]_vars

\* calls that resolve their scope in the built-in table
RoleTableCalls ==
  [kind : {"direct"},
   user : [present : {TRUE}, id : {"u1"}, role : ConfigRoles],
   operation : Ops,
   entityData : { JsObject([f \in Fields |-> IF f = "id" THEN i ELSE Undef]) : i \in Ids },
   params : {EmptyObject}, body : {JsUndefined}, auth : {NoAuth},
   entityRbacConfig : {NoEntityRbacConfig},
   customRoles : {EmptyTable}]
  \cup
  [kind : {"middleware"},
   user : {NoUser},
   operation : Ops,
   entityData : {JsUndefined},
   params : { JsObject([f \in Fields |-> IF f = "id" THEN i ELSE Undef]) : i \in Ids },
   body : {JsUndefined},
   auth : { JwtContext(u, "token") : u \in [present : {TRUE}, id : {"u1"}, role : ConfigRoles] },
   entityRbacConfig : {NoEntityRbacConfig},
   customRoles : {EmptyTable}]

InitRoles ==
  /\ call \in RoleTableCalls
  /\ rbac = RbacIdle
  /\ roles = PristineRoles
  /\ peer = NoPeer
  /\ req = NoRequest
  /\ guard = GuardIdle
  /\ hooks = HooksIdle
  /\ route = RouteIdle

NextRoles ==
  \/ GetDefaultRoles \/ AssignReturnedRole \/ AlterReturnedEntry
  \/ CheckRbacPermission \/ RbacMiddleware

SpecRoles == InitRoles /\ [][NextRoles]_vars

(***************************************************************************)
(* Route guard: configuration and requests                                 *)
(***************************************************************************)

\* bearer tokens a request may carry and what jwt.verify makes of them:
\* the decoded claims of a correctly signed, unexpired token, or an error
\* (verifies is the outcome of the signature and expiry checks alone)
TokenTable ==
  [t \in {"tok-sub", "tok-id", "tok-admin", "tok-noid", "tok-iss-b", "tok-aud-b",
          "tok-badsig", "tok-expired", "tok-malformed"} |->
     IF t = "tok-sub"
     THEN [verifies |-> TRUE, sub |-> "u1", id |-> Undef, role |-> Undef,
           iss |-> "iss-a", aud |-> "aud-a"]
     ELSE IF t = "tok-id"
     THEN [verifies |-> TRUE, sub |-> Undef, id |-> "u2", role |-> "user",
           iss |-> Undef, aud |-> Undef]
     ELSE IF t = "tok-admin"
     THEN [verifies |-> TRUE, sub |-> "u1", id |-> "u2", role |-> "admin",
           iss |-> Undef, aud |-> Undef]
     ELSE IF t = "tok-noid"
     THEN [verifies |-> TRUE, sub |-> Undef, id |-> Undef, role |-> Undef,
           iss |-> Undef, aud |-> Undef]
     ELSE IF t = "tok-iss-b"
     THEN [verifies |-> TRUE, sub |-> "u1", id |-> Undef, role |-> "admin",
           iss |-> "iss-b", aud |-> "aud-a"]
     ELSE IF t = "tok-aud-b"
     THEN [verifies |-> TRUE, sub |-> "u1", id |-> Undef, role |-> "admin",
           iss |-> "iss-a", aud |-> "aud-b"]
     ELSE [verifies |-> FALSE, sub |-> "u1", id |-> Undef, role |-> "admin",
           iss |-> "iss-a", aud |-> "aud-a"]]

Tokens == DOMAIN TokenTable

\* request.headers.authorization
AuthorizationHeaders ==
  {[scheme |-> Undef, token |-> Undef], [scheme |-> "Basic", token |-> Undef]}
    \cup [scheme : {"Bearer"}, token : Tokens]

\* names of the headers that may carry an API key
KeyHeaderNames == {"x-api-key", "x-custom-key"}

\* the API-key headers of a request: none, or one header holding a key
KeyHeaders ==
  {[h \in KeyHeaderNames |-> Undef]}
    \cup { [h \in KeyHeaderNames |-> IF h = h0 THEN "key-1" ELSE Undef] : h0 \in KeyHeaderNames }

\* the per-route auth configuration (RouteAuthConfig)
RouteAuthConfigs ==
  [requireAuth : {Undef, "true", "false"}, jwtOnly : BOOLEAN,
   apiKeyOnly : BOOLEAN, customAuth : BOOLEAN]

\* the global AuthConfig handed to the guard; jwt and apiKey say whether the
\* strategy is configured, extractUser whether jwt.extractUser is supplied,
\* headerName is apiKey.headerName, issuer and audience are jwt.issuer and
\* jwt.audience
NoGlobalAuth ==
  [present |-> FALSE, enabled |-> Undef, jwt |-> FALSE, extractUser |-> FALSE,
   apiKey |-> FALSE, headerName |-> Undef, issuer |-> Undef, audience |-> Undef]

GlobalAuthConfigs ==
  {NoGlobalAuth} \cup
  { g \in [present : {TRUE}, enabled : {Undef, "true", "false"}, jwt : BOOLEAN,
           extractUser : BOOLEAN, apiKey : BOOLEAN,
           headerName : {Undef, "x-custom-key"},
           issuer : {Undef}, audience : {Undef}] :
      /\ (g.extractUser => g.jwt)
      /\ (g.headerName # Undef => g.apiKey) }

\* enabled JWT configurations that constrain the issuer, the audience or both
ConstrainedJwtConfigs ==
  { g \in [present : {TRUE}, enabled : {"true"}, jwt : {TRUE},
           extractUser : {FALSE}, apiKey : BOOLEAN, headerName : {Undef},
           issuer : {Undef, "iss-a"}, audience : {Undef, "aud-a"}] :
      g.issuer # Undef \/ g.audience # Undef }

\* users a caller-supplied callback (extractUser, validateKey) may return
CallbackUsers == [present : {TRUE}, id : Ids, role : {"user", "admin"}]

\* an authenticated context set by other code without an authMethod, as
\* the unit tests of the guard supply
ExternalContext ==
  [present |-> TRUE, isAuthenticated |-> TRUE,
   user |-> [present |-> TRUE, id |-> "u1", role |-> Undef],
   token |-> Undef, apiKey |-> Undef, authMethod |-> Undef]

\* request.auth when the guard is entered
InitialContexts ==
  {NoAuth, Unauthenticated, ExternalContext,
   JwtContext([present |-> TRUE, id |-> "u1", role |-> "user"], "tok-sub"),
   ApiKeyContext([present |-> TRUE, id |-> "u1", role |-> "user"], "key-1")}

GuardRequests ==
  [kind : {"guard"}, config : RouteAuthConfigs, globalAuth : GlobalAuthConfigs,
   authorization : AuthorizationHeaders, keys : KeyHeaders, auth : InitialContexts]

\* requests to a server whose JWT configuration constrains issuer or audience
ConstrainedJwtRequests ==
  [kind : {"guard"},
   config : [requireAuth : {Undef}, jwtOnly : BOOLEAN, apiKeyOnly : {FALSE},
             customAuth : {FALSE}],
   globalAuth : ConstrainedJwtConfigs,
   authorization : [scheme : {"Bearer"}, token : {"tok-sub", "tok-iss-b", "tok-aud-b"}],
   keys : KeyHeaders, auth : {NoAuth}]

NoReply == [status |-> 0, error |-> Undef, message |-> Undef]

\* reply.status(401).send({error, message})
Reply401(error, message) == [status |-> 401, error |-> error, message |-> message]

(***************************************************************************)
(* Route guard: createRouteAuthMiddleware                                  *)
(***************************************************************************)

GuardStart(r) ==
  [pc |-> "enter", auth |-> r.auth, resolving |-> FALSE, outcome |-> Undef,
   reply |-> NoReply, sent |-> FALSE,
   verified |-> FALSE, jwtUser |-> FALSE, extractUserCalls |-> 0,
   validateKeyCalls |-> 0, validateKey |-> Undef, customAuth |-> Undef]

\* the default mapping from decoded claims to a user
DefaultJwtUser(decoded) ==
  [present |-> TRUE,
   id |-> IF decoded.sub # Undef THEN decoded.sub ELSE decoded.id,
   role |-> IF decoded.role # Undef THEN decoded.role ELSE "user"]

\* entry: make sure request.auth exists and decide whether credentials are
\* resolved at all (globalAuth?.enabled && !auth.isAuthenticated)
GuardEnter ==
  /\ guard.pc = "enter"
  /\ LET auth == IF req.auth.present THEN req.auth ELSE Unauthenticated
     IN  guard' = [guard EXCEPT
                     !.auth = auth,
                     !.resolving = req.globalAuth.enabled = "true" /\ ~auth.isAuthenticated,
                     !.pc = "jwt"]
  /\ UNCHANGED <<call, rbac, req, hooks, route, roles, peer>>

\* the JWT branch letting a verification error escape
GuardJwt_VerifyErrorEscapes ==
  /\ guard.pc = "jwt"
  /\ IF /\ guard.resolving
        /\ req.globalAuth.jwt
        /\ req.authorization.scheme = "Bearer"
     THEN IF TokenTable[req.authorization.token].verifies
          THEN LET token == req.authorization.token
                   decoded == TokenTable[token]
               IN  IF req.globalAuth.extractUser
                   THEN \/ \E user \in CallbackUsers :
                             guard' = [guard EXCEPT !.auth = JwtContext(user, token),
                                                    !.verified = TRUE, !.jwtUser = TRUE,
                                                    !.extractUserCalls = 1, !.pc = "apikey"]
                        \/ guard' = [guard EXCEPT !.verified = TRUE,
                                                  !.extractUserCalls = 1, !.pc = "apikey"]
                   ELSE guard' = [guard EXCEPT !.auth = JwtContext(DefaultJwtUser(decoded), token),
                                               !.verified = TRUE, !.jwtUser = TRUE,
                                               !.pc = "apikey"]
          ELSE guard' = [guard EXCEPT !.pc = "done", !.outcome = "raise"]
     ELSE guard' = [guard EXCEPT !.pc = "apikey"]
  /\ UNCHANGED <<call, rbac, req, hooks, route, roles, peer>>

\* the JWT branch; every error inside it is caught
GuardJwt ==
  /\ guard.pc = "jwt"
  /\ IF /\ guard.resolving
        /\ req.globalAuth.jwt
        /\ req.authorization.scheme = "Bearer"
        /\ TokenTable[req.authorization.token].verifies
     THEN LET token == req.authorization.token
              decoded == TokenTable[token]
          IN  IF req.globalAuth.extractUser
              THEN \/ \E user \in CallbackUsers :
                        guard' = [guard EXCEPT !.auth = JwtContext(user, token),
                                               !.verified = TRUE, !.jwtUser = TRUE,
                                               !.extractUserCalls = 1, !.pc = "apikey"]
                   \/ \* extractUser resolves null, or throws and is caught
                      guard' = [guard EXCEPT !.verified = TRUE,
                                             !.extractUserCalls = 1, !.pc = "apikey"]
              ELSE guard' = [guard EXCEPT !.auth = JwtContext(DefaultJwtUser(decoded), token),
                                          !.verified = TRUE, !.jwtUser = TRUE,
                                          !.pc = "apikey"]
     ELSE guard' = [guard EXCEPT !.pc = "apikey"]
  /\ UNCHANGED <<call, rbac, req, hooks, route, roles, peer>>

\* the API-key branch tried whether or not the JWT branch resolved a user
GuardApiKey_NoShortCircuit ==
  /\ guard.pc = "apikey"
  /\ LET headerName == IF req.globalAuth.headerName # Undef
                       THEN req.globalAuth.headerName ELSE "x-api-key"
         apiKey == req.keys[headerName]
     IN  IF /\ guard.resolving
            /\ req.globalAuth.apiKey
            /\ apiKey # Undef
         THEN \/ \E user \in CallbackUsers :
                   guard' = [guard EXCEPT !.auth = ApiKeyContext(user, apiKey),
                                          !.validateKeyCalls = 1,
                                          !.validateKey = "user", !.pc = "decide"]
              \/ \* validateKey resolves null
                 guard' = [guard EXCEPT !.validateKeyCalls = 1,
                                        !.validateKey = "null", !.pc = "decide"]
              \/ \* validateKey throws or rejects: the guard's promise rejects
                 guard' = [guard EXCEPT !.validateKeyCalls = 1,
                                        !.validateKey = "throw", !.pc = "done",
                                        !.outcome = "raise"]
         ELSE guard' = [guard EXCEPT !.pc = "decide"]
  /\ UNCHANGED <<call, rbac, req, hooks, route, roles, peer>>

\* the API-key branch entered only by requests without an Authorization header
GuardApiKey_OnlyWithoutBearer ==
  /\ guard.pc = "apikey"
  /\ LET headerName == IF req.globalAuth.headerName # Undef
                       THEN req.globalAuth.headerName ELSE "x-api-key"
         apiKey == req.keys[headerName]
     IN  IF /\ guard.resolving
            /\ ~guard.auth.isAuthenticated
            /\ req.authorization.scheme = Undef
            /\ req.globalAuth.apiKey
            /\ apiKey # Undef
         THEN \/ \E user \in CallbackUsers :
                   guard' = [guard EXCEPT !.auth = ApiKeyContext(user, apiKey),
                                          !.validateKeyCalls = 1,
                                          !.validateKey = "user", !.pc = "decide"]
              \/ \* validateKey resolves null
                 guard' = [guard EXCEPT !.validateKeyCalls = 1,
                                        !.validateKey = "null", !.pc = "decide"]
              \/ \* validateKey throws or rejects: the guard's promise rejects
                 guard' = [guard EXCEPT !.validateKeyCalls = 1,
                                        !.validateKey = "throw", !.pc = "done",
                                        !.outcome = "raise"]
         ELSE guard' = [guard EXCEPT !.pc = "decide"]
  /\ UNCHANGED <<call, rbac, req, hooks, route, roles, peer>>

\* the API-key branch; validateKey is awaited outside any try block
GuardApiKey ==
  /\ guard.pc = "apikey"
  /\ LET headerName == IF req.globalAuth.headerName # Undef
                       THEN req.globalAuth.headerName ELSE "x-api-key"
         apiKey == req.keys[headerName]
     IN  IF /\ guard.resolving
            /\ ~guard.auth.isAuthenticated
            /\ req.globalAuth.apiKey
            /\ apiKey # Undef
         THEN \/ \E user \in CallbackUsers :
                   guard' = [guard EXCEPT !.auth = ApiKeyContext(user, apiKey),
                                          !.validateKeyCalls = 1,
                                          !.validateKey = "user", !.pc = "decide"]
              \/ \* validateKey resolves null
                 guard' = [guard EXCEPT !.validateKeyCalls = 1,
                                        !.validateKey = "null", !.pc = "decide"]
              \/ \* validateKey throws or rejects: the guard's promise rejects
                 guard' = [guard EXCEPT !.validateKeyCalls = 1,
                                        !.validateKey = "throw", !.pc = "done",
                                        !.outcome = "raise"]
         ELSE guard' = [guard EXCEPT !.pc = "decide"]
  /\ UNCHANGED <<call, rbac, req, hooks, route, roles, peer>>

\* the method restrictions checked before the authentication check
GuardDecision_MethodFirst(config, authContext, customAuthOutcome) ==
  IF config.requireAuth = "false"
  THEN [outcome |-> "allow", reply |-> NoReply, customAuth |-> Undef]
  ELSE IF config.customAuth
  THEN IF customAuthOutcome = "throw"
       THEN [outcome |-> "raise", reply |-> NoReply, customAuth |-> "throw"]
       ELSE IF customAuthOutcome = "false"
       THEN [outcome |-> "reject",
             reply |-> Reply401("Authentication required", "Custom authentication failed"),
             customAuth |-> "false"]
       ELSE [outcome |-> "allow", reply |-> NoReply, customAuth |-> "true"]
  ELSE IF config.jwtOnly /\ authContext.authMethod # "jwt"
  THEN [outcome |-> "reject",
        reply |-> Reply401("Authentication method not allowed",
                           "This endpoint only accepts JWT authentication"),
        customAuth |-> Undef]
  ELSE IF config.apiKeyOnly /\ authContext.authMethod # "api-key"
  THEN [outcome |-> "reject",
        reply |-> Reply401("Authentication method not allowed",
                           "This endpoint only accepts API key authentication"),
        customAuth |-> Undef]
  ELSE IF ~authContext.isAuthenticated \/ ~authContext.user.present
  THEN [outcome |-> "reject",
        reply |-> Reply401("Authentication required", "No authentication token provided"),
        customAuth |-> Undef]
  ELSE [outcome |-> "allow", reply |-> NoReply, customAuth |-> Undef]

\* the jwtOnly restriction left out
GuardDecision_IgnoreJwtOnly(config, authContext, customAuthOutcome) ==
  IF config.requireAuth = "false"
  THEN [outcome |-> "allow", reply |-> NoReply, customAuth |-> Undef]
  ELSE IF config.customAuth
  THEN IF customAuthOutcome = "throw"
       THEN [outcome |-> "raise", reply |-> NoReply, customAuth |-> "throw"]
       ELSE IF customAuthOutcome = "false"
       THEN [outcome |-> "reject",
             reply |-> Reply401("Authentication required", "Custom authentication failed"),
             customAuth |-> "false"]
       ELSE [outcome |-> "allow", reply |-> NoReply, customAuth |-> "true"]
  ELSE IF ~authContext.isAuthenticated \/ ~authContext.user.present
  THEN [outcome |-> "reject",
        reply |-> Reply401("Authentication required", "No authentication token provided"),
        customAuth |-> Undef]
  ELSE IF config.apiKeyOnly /\ authContext.authMethod # "api-key"
  THEN [outcome |-> "reject",
        reply |-> Reply401("Authentication method not allowed",
                           "This endpoint only accepts API key authentication"),
        customAuth |-> Undef]
  ELSE [outcome |-> "allow", reply |-> NoReply, customAuth |-> Undef]

\* a successful customAuth falling through to the remaining checks
GuardDecision_CustomThenRest(config, authContext, customAuthOutcome) ==
  LET rest(customAuth) ==
        IF ~authContext.isAuthenticated \/ ~authContext.user.present
        THEN [outcome |-> "reject",
              reply |-> Reply401("Authentication required", "No authentication token provided"),
              customAuth |-> customAuth]
        ELSE IF config.jwtOnly /\ authContext.authMethod # "jwt"
        THEN [outcome |-> "reject",
              reply |-> Reply401("Authentication method not allowed",
                                 "This endpoint only accepts JWT authentication"),
              customAuth |-> customAuth]
        ELSE IF config.apiKeyOnly /\ authContext.authMethod # "api-key"
        THEN [outcome |-> "reject",
              reply |-> Reply401("Authentication method not allowed",
                                 "This endpoint only accepts API key authentication"),
              customAuth |-> customAuth]
        ELSE [outcome |-> "allow", reply |-> NoReply, customAuth |-> customAuth]
  IN  IF config.requireAuth = "false"
      THEN [outcome |-> "allow", reply |-> NoReply, customAuth |-> Undef]
      ELSE IF config.customAuth
      THEN IF customAuthOutcome = "throw"
           THEN [outcome |-> "raise", reply |-> NoReply, customAuth |-> "throw"]
           ELSE IF customAuthOutcome = "false"
           THEN [outcome |-> "reject",
                 reply |-> Reply401("Authentication required", "Custom authentication failed"),
                 customAuth |-> "false"]
           ELSE rest("true")
      ELSE rest(Undef)

\* the apiKeyOnly restriction left out
GuardDecision_IgnoreApiKeyOnly(config, authContext, customAuthOutcome) ==
  IF config.requireAuth = "false"
  THEN [outcome |-> "allow", reply |-> NoReply, customAuth |-> Undef]
  ELSE IF config.customAuth
  THEN IF customAuthOutcome = "throw"
       THEN [outcome |-> "raise", reply |-> NoReply, customAuth |-> "throw"]
       ELSE IF customAuthOutcome = "false"
       THEN [outcome |-> "reject",
             reply |-> Reply401("Authentication required", "Custom authentication failed"),
             customAuth |-> "false"]
       ELSE [outcome |-> "allow", reply |-> NoReply, customAuth |-> "true"]
  ELSE IF ~authContext.isAuthenticated \/ ~authContext.user.present
  THEN [outcome |-> "reject",
        reply |-> Reply401("Authentication required", "No authentication token provided"),
        customAuth |-> Undef]
  ELSE IF config.jwtOnly /\ authContext.authMethod # "jwt"
  THEN [outcome |-> "reject",
        reply |-> Reply401("Authentication method not allowed",
                           "This endpoint only accepts JWT authentication"),
        customAuth |-> Undef]
  ELSE [outcome |-> "allow", reply |-> NoReply, customAuth |-> Undef]

\* the decision table of the guard: requireAuth, customAuth, authentication,
\* jwtOnly, apiKeyOnly, in this order
GuardDecision(config, authContext, customAuthOutcome) ==
  IF config.requireAuth = "false"
  THEN [outcome |-> "allow", reply |-> NoReply, customAuth |-> Undef]
  ELSE IF config.customAuth
  THEN IF customAuthOutcome = "throw"
       THEN [outcome |-> "raise", reply |-> NoReply, customAuth |-> "throw"]
       ELSE IF customAuthOutcome = "false"
       THEN [outcome |-> "reject",
             reply |-> Reply401("Authentication required", "Custom authentication failed"),
             customAuth |-> "false"]
       ELSE [outcome |-> "allow", reply |-> NoReply, customAuth |-> "true"]
  ELSE IF ~authContext.isAuthenticated \/ ~authContext.user.present
  THEN [outcome |-> "reject",
        reply |-> Reply401("Authentication required", "No authentication token provided"),
        customAuth |-> Undef]
  ELSE IF config.jwtOnly /\ authContext.authMethod # "jwt"
  THEN [outcome |-> "reject",
        reply |-> Reply401("Authentication method not allowed",
                           "This endpoint only accepts JWT authentication"),
        customAuth |-> Undef]
  ELSE IF config.apiKeyOnly /\ authContext.authMethod # "api-key"
  THEN [outcome |-> "reject",
        reply |-> Reply401("Authentication method not allowed",
                           "This endpoint only accepts API key authentication"),
        customAuth |-> Undef]
  ELSE [outcome |-> "allow", reply |-> NoReply, customAuth |-> Undef]

\* the guard decides; customAuth, when awaited, resolves true or false or throws
GuardDecide ==
  /\ guard.pc = "decide"
  /\ \E customAuthOutcome \in CallbackOutcomes :
       LET d == GuardDecision(req.config, guard.auth, customAuthOutcome)
       IN  guard' = [guard EXCEPT !.pc = "done", !.outcome = d.outcome,
                                  !.reply = d.reply, !.sent = d.outcome = "reject",
                                  !.customAuth = d.customAuth]
  /\ UNCHANGED <<call, rbac, req, hooks, route, roles, peer>>

InitGuard ==
  /\ roles = PristineRoles
  /\ peer = NoPeer
  /\ req \in GuardRequests \cup ConstrainedJwtRequests
  /\ guard = GuardStart(req)
  /\ call = NoCall
  /\ rbac = RbacIdle
  /\ hooks = HooksIdle
  /\ route = RouteIdle

NextGuard == GuardEnter \/ GuardJwt \/ GuardApiKey \/ GuardDecide

SpecGuard == InitGuard /\ [][NextGuard]_vars

(***************************************************************************)
(* The preHandler hooks: createJwtMiddleware, createApiKeyMiddleware,      *)
(* createAuthContextMiddleware                                             *)
(***************************************************************************)

HookNames == {"jwt", "api-key", "context"}

\* the hooks a configuration can register: one per configured strategy and
\* the context-injection hook
ConfiguredHooks(globalAuth) ==
  { h \in HookNames : \/ h = "context"
                      \/ h = "jwt" /\ globalAuth.jwt
                      \/ h = "api-key" /\ globalAuth.apiKey }

\* requests arriving at the hooks: request.auth is not set yet
HookRequests ==
  [kind : {"hooked"},
   config : [requireAuth : {Undef, "false"}, jwtOnly : BOOLEAN,
             apiKeyOnly : {FALSE}, customAuth : {FALSE}],
   globalAuth : { g \in GlobalAuthConfigs : g.present /\ g.enabled = "true" },
   authorization : AuthorizationHeaders, keys : KeyHeaders, auth : {NoAuth}]

\* the default mapping of createJwtMiddleware from decoded claims to a user
DefaultHookUser(decoded) ==
  [present |-> TRUE,
   id |-> IF decoded.sub # Undef THEN decoded.sub ELSE decoded.id,
   role |-> decoded.role]

\* the hook of createJwtMiddleware writing a context without a user
JwtHook_NullUserAuthenticates ==
  /\ "jwt" \in hooks.pending
  /\ LET h == [hooks EXCEPT !.pending = @ \ {"jwt"}, !.ran = Append(@, "jwt")]
         token == req.authorization.token
     IN  IF req.authorization.scheme = "Bearer" /\ TokenTable[token].verifies
         THEN IF req.globalAuth.extractUser
              THEN \/ \E user \in CallbackUsers :
                        /\ req' = [req EXCEPT !.auth = JwtContext(user, token)]
                        /\ hooks' = [h EXCEPT !.extractUser = "user",
                                              !.wrote = @ \cup {"jwt"}]
                   \/ /\ req' = [req EXCEPT !.auth = JwtContext(NoUser, token)]
                      /\ hooks' = [h EXCEPT !.extractUser = "null",
                                            !.wrote = @ \cup {"jwt"}]
                   \/ /\ req' = req
                      /\ hooks' = [h EXCEPT !.extractUser = "throw"]
              ELSE /\ req' = [req EXCEPT
                                !.auth = JwtContext(DefaultHookUser(TokenTable[token]), token)]
                   /\ hooks' = [h EXCEPT !.wrote = @ \cup {"jwt"}]
         ELSE req' = req /\ hooks' = h
  /\ UNCHANGED <<call, rbac, guard, route, roles, peer>>

\* the hook of createJwtMiddleware; extractUser resolves a user or null, or
\* throws, and every error is caught
JwtHook ==
  /\ "jwt" \in hooks.pending
  /\ LET h == [hooks EXCEPT !.pending = @ \ {"jwt"}, !.ran = Append(@, "jwt")]
         token == req.authorization.token
     IN  IF req.authorization.scheme = "Bearer" /\ TokenTable[token].verifies
         THEN IF req.globalAuth.extractUser
              THEN \/ \E user \in CallbackUsers :
                        /\ req' = [req EXCEPT !.auth = JwtContext(user, token)]
                        /\ hooks' = [h EXCEPT !.extractUser = "user",
                                              !.wrote = @ \cup {"jwt"}]
                   \/ \E outcome \in {"null", "throw"} :
                        /\ req' = req
                        /\ hooks' = [h EXCEPT !.extractUser = outcome]
              ELSE /\ req' = [req EXCEPT
                                !.auth = JwtContext(DefaultHookUser(TokenTable[token]), token)]
                   /\ hooks' = [h EXCEPT !.wrote = @ \cup {"jwt"}]
         ELSE req' = req /\ hooks' = h
  /\ UNCHANGED <<call, rbac, guard, route, roles, peer>>

\* the API-key hook updating the existing context and keeping its token
ApiKeyHook_KeepsToken ==
  /\ "api-key" \in hooks.pending
  /\ LET h == [hooks EXCEPT !.pending = @ \ {"api-key"}, !.ran = Append(@, "api-key")]
         headerName == IF req.globalAuth.headerName # Undef
                       THEN req.globalAuth.headerName ELSE "x-api-key"
         apiKey == req.keys[headerName]
     IN  IF apiKey # Undef
         THEN \/ \E user \in CallbackUsers :
                   /\ req' = [req EXCEPT !.auth = [ApiKeyContext(user, apiKey) EXCEPT
                                                    !.token = req.auth.token]]
                   /\ hooks' = [h EXCEPT !.validateKey = "user",
                                         !.wrote = @ \cup {"api-key"}]
              \/ \E outcome \in {"null", "throw"} :
                   /\ req' = req
                   /\ hooks' = [h EXCEPT !.validateKey = outcome]
         ELSE req' = req /\ hooks' = h
  /\ UNCHANGED <<call, rbac, guard, route, roles, peer>>

\* the hook of createApiKeyMiddleware; validateKey is awaited inside try
ApiKeyHook ==
  /\ "api-key" \in hooks.pending
  /\ LET h == [hooks EXCEPT !.pending = @ \ {"api-key"}, !.ran = Append(@, "api-key")]
         headerName == IF req.globalAuth.headerName # Undef
                       THEN req.globalAuth.headerName ELSE "x-api-key"
         apiKey == req.keys[headerName]
     IN  IF apiKey # Undef
         THEN \/ \E user \in CallbackUsers :
                   /\ req' = [req EXCEPT !.auth = ApiKeyContext(user, apiKey)]
                   /\ hooks' = [h EXCEPT !.validateKey = "user",
                                         !.wrote = @ \cup {"api-key"}]
              \/ \E outcome \in {"null", "throw"} :
                   /\ req' = req
                   /\ hooks' = [h EXCEPT !.validateKey = outcome]
         ELSE req' = req /\ hooks' = h
  /\ UNCHANGED <<call, rbac, guard, route, roles, peer>>

\* the hook of createAuthContextMiddleware
AuthContextHook ==
  /\ "context" \in hooks.pending
  /\ hooks' = [hooks EXCEPT !.pending = @ \ {"context"}, !.ran = Append(@, "context"),
                            !.wrote = IF req.auth.present THEN @ ELSE @ \cup {"context"}]
  /\ req' = IF req.auth.present THEN req ELSE [req EXCEPT !.auth = Unauthenticated]
  /\ UNCHANGED <<call, rbac, guard, route, roles, peer>>

\* after the hooks the route's own preHandler, the guard, is entered
HooksToGuard ==
  /\ req.kind = "hooked"
  /\ hooks.pending = {}
  /\ guard.pc = "idle"
  /\ guard' = GuardStart(req)
  /\ UNCHANGED <<call, rbac, req, hooks, route, roles, peer>>

\* any subset of the configured hooks is registered; they run once each, in
\* any order
InitHooks ==
  /\ roles = PristineRoles
  /\ peer = NoPeer
  /\ req \in HookRequests
  /\ \E registered \in SUBSET ConfiguredHooks(req.globalAuth) :
       hooks = [HooksIdle EXCEPT !.pending = registered]
  /\ guard = GuardIdle
  /\ call = NoCall
  /\ rbac = RbacIdle
  /\ route = RouteIdle

NextHooks ==
  \/ JwtHook \/ ApiKeyHook \/ AuthContextHook \/ HooksToGuard
  \/ GuardEnter \/ GuardJwt \/ GuardApiKey \/ GuardDecide

SpecHooks == InitHooks /\ [][NextHooks]_vars

(***************************************************************************)
(* The two context builders on one request: the guard's inline resolution  *)
(* started from an empty context, then the hooks on the same request       *)
(***************************************************************************)

\* the order in which the hooks are taken to be registered
HookOrder == <<"jwt", "api-key", "context">>

\* requests given to both builders
ReplayedRequests == { [r EXCEPT !.kind = "replayed"] : r \in HookRequests }

\* the guard has finished; the same request, still without a context, is
\* now given to every configured hook
ReplayThroughHooks ==
  /\ req.kind = "replayed"
  /\ guard.pc = "done"
  /\ hooks.pending = {} /\ hooks.ran = <<>>
  /\ hooks' = [hooks EXCEPT !.pending = ConfiguredHooks(req.globalAuth)]
  /\ UNCHANGED <<call, rbac, req, guard, route, roles, peer>>

InitAgree ==
  /\ roles = PristineRoles
  /\ peer = NoPeer
  /\ req \in ReplayedRequests
  /\ guard = GuardStart(req)
  /\ hooks = HooksIdle
  /\ call = NoCall
  /\ rbac = RbacIdle
  /\ route = RouteIdle

NextAgree ==
  \/ GuardEnter \/ GuardJwt \/ GuardApiKey \/ GuardDecide
  \/ ReplayThroughHooks
  \/ JwtHook \/ ApiKeyHook \/ AuthContextHook

SpecAgree == InitAgree /\ [][NextAgree]_vars

(***************************************************************************)
(* The routes registered for an entity and their preHandlers               *)
(***************************************************************************)

RouteKinds == {"findAll", "findOne", "create", "update", "delete", "custom"}

\* the RBAC operation a route stands for
RouteOperation(kind) ==
  IF kind \in {"findAll", "findOne"} THEN "read"
  ELSE IF kind = "custom" THEN Undef
  ELSE kind

\* globalAuth.rbac
NoRbacConfig == [present |-> FALSE, enabled |-> Undef, customRoles |-> EmptyTable]

RbacConfigs ==
  {NoRbacConfig,
   [present |-> TRUE, enabled |-> Undef, customRoles |-> EmptyTable],
   [present |-> TRUE, enabled |-> "false", customRoles |-> EmptyTable],
   [present |-> TRUE, enabled |-> "true", customRoles |-> ModeratorRoles]}

\* globalAuth?.rbac?.enabled ?? !!globalAuth?.rbac
RbacEnabled(rbacConfig) ==
  IF rbacConfig.present /\ rbacConfig.enabled # Undef
  THEN rbacConfig.enabled = "true"
  ELSE rbacConfig.present

\* the preHandlers array a registration function builds; authConfig is
\* entity.auth || {} (customRoute.auth || {} for a custom route)
PreHandlers(kind, authConfig, globalAuth, rbacConfig) ==
  IF kind = "findOne"
  THEN <<>>
  ELSE IF kind = "create"
  THEN LET authEnabled == IF globalAuth.enabled # Undef
                          THEN globalAuth.enabled = "true"
                          ELSE globalAuth.jwt \/ globalAuth.apiKey
           requiresAuth == authEnabled /\ authConfig.requireAuth # "false"
       IN  IF ~requiresAuth THEN <<>>
           ELSE IF RbacEnabled(rbacConfig) THEN <<"guard", "rbac">>
           ELSE <<"guard">>
  ELSE LET requiresAuth == globalAuth.enabled = "true"
                             /\ authConfig.requireAuth # "false"
       IN  IF requiresAuth THEN <<"guard">> ELSE <<>>

\* requests to a registered route; the route sets at most one of jwtOnly,
\* apiKeyOnly and customAuth
RouteRequests ==
  [kind : {"routed"},
   config : { c \in [requireAuth : {Undef, "false"}, jwtOnly : BOOLEAN,
                     apiKeyOnly : BOOLEAN, customAuth : BOOLEAN] :
                Cardinality({ f \in {"jwtOnly", "apiKeyOnly", "customAuth"} : c[f] }) <= 1 },
   globalAuth : { g \in GlobalAuthConfigs : ~g.extractUser /\ g.headerName = Undef },
   authorization : {[scheme |-> Undef, token |-> Undef]}
                     \cup [scheme : {"Bearer"}, token : {"tok-sub", "tok-admin", "tok-expired"}],
   keys : { k \in KeyHeaders : k["x-custom-key"] = Undef },
   auth : {NoAuth}]

\* a registered route about to serve a request
Routes ==
  [pc : {"preHandler"}, kind : RouteKinds, rbac : RbacConfigs,
   entityRbac : {NoEntityRbacConfig}
                  \cup EntityRbacConfigs({EmptyTable}, {"ownerId"}, {Ops}),
   params : { JsObject([f \in Fields |-> IF f = "id" THEN i ELSE Undef]) : i \in Ids },
   body : {JsUndefined, JsObject([f \in Fields |-> IF f = "id" THEN "u2" ELSE Undef])},
   preHandlers : {<<>>}, index : {1}, running : {FALSE},
   handled : {FALSE}, response : {Undef}]

\* the next preHandler of the route is called
RouteRunPreHandler ==
  /\ route.pc = "preHandler"
  /\ ~route.running
  /\ route.index <= Len(route.preHandlers)
  /\ route' = [route EXCEPT !.running = TRUE]
  /\ IF route.preHandlers[route.index] = "guard"
     THEN /\ guard' = GuardStart(req)
          /\ UNCHANGED call
     ELSE /\ call' = [kind |-> "middleware", user |-> NoUser,
                      operation |-> RouteOperation(route.kind),
                      entityData |-> JsUndefined,
                      params |-> route.params, body |-> route.body,
                      auth |-> guard.auth,
                      entityRbacConfig |-> route.entityRbac,
                      customRoles |-> route.rbac.customRoles]
          /\ UNCHANGED guard
  /\ UNCHANGED <<rbac, req, hooks, roles, peer>>

\* a preHandler that has sent a reply not ending the request
RoutePreHandlerDone_IgnoreSent ==
  /\ route.pc = "preHandler"
  /\ route.running
  /\ LET name == route.preHandlers[route.index]
         finished == IF name = "guard" THEN guard.pc = "done" ELSE rbac.pc # "idle"
         raised == IF name = "guard" THEN guard.outcome = "raise" ELSE rbac.pc = "raised"
     IN  /\ finished
         /\ route' = IF raised
                      THEN [route EXCEPT !.pc = "done", !.running = FALSE,
                                         !.response = "error"]
                      ELSE [route EXCEPT !.index = @ + 1, !.running = FALSE]
  /\ UNCHANGED <<call, rbac, req, guard, hooks, roles, peer>>

\* the running preHandler has finished: a sent reply ends the request, an
\* error ends it with the error response, otherwise the next one is due
RoutePreHandlerDone ==
  /\ route.pc = "preHandler"
  /\ route.running
  /\ LET name == route.preHandlers[route.index]
         finished == IF name = "guard" THEN guard.pc = "done" ELSE rbac.pc # "idle"
         sent == IF name = "guard" THEN guard.sent ELSE rbac.sent
         raised == IF name = "guard" THEN guard.outcome = "raise" ELSE rbac.pc = "raised"
     IN  /\ finished
         /\ route' = IF sent
                      THEN [route EXCEPT !.pc = "done", !.running = FALSE,
                                         !.response = name]
                      ELSE IF raised
                      THEN [route EXCEPT !.pc = "done", !.running = FALSE,
                                         !.response = "error"]
                      ELSE [route EXCEPT !.index = @ + 1, !.running = FALSE]
  /\ UNCHANGED <<call, rbac, req, guard, hooks, roles, peer>>

\* every preHandler has passed: the route handler calls the entity function
RouteHandler ==
  /\ route.pc = "preHandler"
  /\ ~route.running
  /\ route.index > Len(route.preHandlers)
  /\ route' = [route EXCEPT !.pc = "done", !.handled = TRUE, !.response = "handler"]
  /\ UNCHANGED <<call, rbac, req, guard, hooks, roles, peer>>

InitRoute ==
  /\ roles = PristineRoles
  /\ peer = NoPeer
  /\ req \in RouteRequests
  /\ \E r \in Routes :
       route = [r EXCEPT !.preHandlers =
                           PreHandlers(r.kind, req.config, req.globalAuth, r.rbac)]
  /\ guard = GuardIdle
  /\ call = NoCall
  /\ rbac = RbacIdle
  /\ hooks = HooksIdle

NextRoute ==
  \/ RouteRunPreHandler \/ RoutePreHandlerDone \/ RouteHandler
  \/ GuardEnter \/ GuardJwt \/ GuardApiKey \/ GuardDecide
  \/ RbacMiddleware

SpecRoute == InitRoute /\ [][NextRoute]_vars

(***************************************************************************)
(* Two requests in flight: each await of a middleware lets the other run   *)
(***************************************************************************)

\* the startup configuration both requests are served under
PairGlobalAuth ==
  [present |-> TRUE, enabled |-> "true", jwt |-> TRUE, extractUser |-> FALSE,
   apiKey |-> TRUE, headerName |-> Undef, issuer |-> Undef, audience |-> Undef]

\* requests to the create route, differing in their headers
PairRequests ==
  { r \in RouteRequests :
      /\ r.globalAuth = PairGlobalAuth
      /\ r.config.requireAuth = Undef /\ ~r.config.jwtOnly /\ ~r.config.apiKeyOnly
      /\ r.authorization.token # "tok-expired" }

PairRoutes ==
  { r \in Routes :
      /\ r.kind = "create"
      /\ r.rbac.enabled = "true"
      /\ ~r.entityRbac.present
      /\ r.params.fields["id"] = "u1"
      /\ r.body.kind = "object" }

\* what one request owns: the request object with its auth context, and
\* the locals of the preHandlers running for it
InFlight(c, b, r, g, rt) ==
  [present |-> TRUE, call |-> c, rbac |-> b, req |-> r, guard |-> g, route |-> rt]

\* every request keeping one context in common: the resumed request
\* finds the context the other one wrote
Switch_SharedContext ==
  /\ peer.present
  /\ peer' = InFlight(call, rbac, req, guard, route)
  /\ call' = peer.call
  /\ rbac' = peer.rbac
  /\ req' = peer.req
  /\ guard' = IF guard.pc \in {"idle", "enter"} \/ peer.guard.pc \in {"idle", "enter"}
               THEN peer.guard
               ELSE [peer.guard EXCEPT !.auth = guard.auth]
  /\ route' = peer.route
  /\ UNCHANGED <<hooks, roles>>

\* the running request is suspended at an await and the other is resumed;
\* the preHandlers keep everything in the request object and in locals
Switch ==
  /\ peer.present
  /\ peer' = InFlight(call, rbac, req, guard, route)
  /\ call' = peer.call
  /\ rbac' = peer.rbac
  /\ req' = peer.req
  /\ guard' = peer.guard
  /\ route' = peer.route
  /\ UNCHANGED <<hooks, roles>>

InitPair ==
  /\ roles = PristineRoles
  /\ hooks = HooksIdle
  /\ req \in PairRequests
  /\ \E r \in PairRoutes :
       route = [r EXCEPT !.preHandlers =
                           PreHandlers(r.kind, req.config, req.globalAuth, r.rbac)]
  /\ guard = GuardIdle
  /\ call = NoCall
  /\ rbac = RbacIdle
  /\ \E r2 \in PairRequests, rt2 \in PairRoutes :
       peer = InFlight(NoCall, RbacIdle, r2, GuardIdle,
                       [rt2 EXCEPT !.preHandlers =
                          PreHandlers(rt2.kind, r2.config, r2.globalAuth, rt2.rbac)])

NextPair ==
  \/ RouteRunPreHandler \/ RoutePreHandlerDone \/ RouteHandler
  \/ GuardEnter \/ GuardJwt \/ GuardApiKey \/ GuardDecide
  \/ RbacMiddleware
  \/ Switch

SpecPair == InitPair /\ [][NextPair]_vars

(***************************************************************************)
(* Properties of the RBAC evaluator (SpecRbac)                             *)
(***************************************************************************)

\* the user the evaluator was called with
EvaluatedUser == IF call.kind = "direct" THEN call.user ELSE call.auth.user

\* the evaluator has been called and has finished (returned or raised)
Evaluated ==
  /\ rbac.pc # "idle"
  /\ (call.kind = "middleware" => rbac.status # 401)

\* C1: scope precedence. Once checkRbacPermission has run for role r and
\* operation o, the scope it decided with is the entity-level
\* operations[r][o] when that is defined; otherwise the global custom
\* role's scope when that is defined; and the built-in scope only when
\* neither of the two defines r.o. A decision made with scope All allows.
C1_ScopePrecedence ==
  Evaluated =>
    LET role == IF EvaluatedUser.role # Undef THEN EvaluatedUser.role ELSE "user"
        o == call.operation
        ops == call.entityRbacConfig.operations
        entityDefined == call.entityRbacConfig.present /\ role \in DOMAIN ops
                           /\ o \in DOMAIN ops[role]
        customDefined == role \in DOMAIN call.customRoles
                           /\ o \in DOMAIN call.customRoles[role]
        builtinDefined == role \in {"user", "admin"}
    IN  /\ entityDefined => rbac.scope = ops[role][o]
        /\ ~entityDefined /\ customDefined =>
              rbac.scope = call.customRoles[role][o].scope
        /\ ~entityDefined /\ ~customDefined /\ builtinDefined =>
              rbac.scope = DEFAULT_ROLES[role][o]
        /\ rbac.scope = "All" => rbac.result = "true"

\* the evaluator has decided a role and operation that all three tables
\* define, each with a different scope
C1_Witness ==
  /\ rbac.pc = "returned"
  /\ call.kind = "direct"
  /\ call.user.role = "user"
  /\ "user" \in DOMAIN call.entityRbacConfig.operations
  /\ call.operation \in DOMAIN call.entityRbacConfig.operations["user"]
  /\ "user" \in DOMAIN call.customRoles
  /\ call.operation \in DOMAIN call.customRoles["user"]
  /\ LET e == call.entityRbacConfig.operations["user"][call.operation]
         c == call.customRoles["user"][call.operation].scope
         d == DEFAULT_ROLES["user"][call.operation]
     IN  e # c /\ c # d /\ e # d /\ rbac.scope = e

\* C2: default deny with total lookup. When no table defines a scope for
\* the user's role and the operation, checkRbacPermission returns false,
\* does not raise and calls no custom check, whatever the payload.
C2_DefaultDeny ==
  Evaluated =>
    LET role == IF EvaluatedUser.role # Undef THEN EvaluatedUser.role ELSE "user"
        o == call.operation
        ops == call.entityRbacConfig.operations
        entityDefined == call.entityRbacConfig.present /\ role \in DOMAIN ops
                           /\ o \in DOMAIN ops[role]
        customDefined == role \in DOMAIN call.customRoles
                           /\ o \in DOMAIN call.customRoles[role]
        builtinDefined == role \in {"user", "admin"}
    IN  ~entityDefined /\ ~customDefined /\ ~builtinDefined =>
          rbac.result = "false" /\ rbac.pc # "raised" /\ rbac.checks = 0

\* a role unknown to every table was denied on a null payload although the
\* entity configures custom checks
C2_Witness ==
  /\ rbac.pc = "returned"
  /\ call.kind = "direct"
  /\ call.user.role = "ghost"
  /\ call.entityData = JsNull
  /\ call.entityRbacConfig.customChecks = Ops
  /\ rbac.result = "false"

\* C3: ownership rule. When the decision is made with scope Own, the
\* evaluator returns true exactly when the payload is an object whose owner
\* field (entityRbacConfig.ownerField, "id" when not configured) equals
\* user.id, and returns false for every other object payload.
C3_OwnershipRule ==
  Evaluated /\ rbac.scope = "Own" =>
    LET ownerField == IF call.entityRbacConfig.present
                          /\ call.entityRbacConfig.ownerField # Undef
                       THEN call.entityRbacConfig.ownerField
                       ELSE "id"
        owns == rbac.entityData.kind = "object"
                  /\ rbac.entityData.fields[ownerField] = EvaluatedUser.id
    IN  /\ rbac.result = "true" <=> owns
        /\ rbac.entityData.kind = "object" => (rbac.result = "false" <=> ~owns)

\* a user was allowed on a payload whose configured owner field names the
\* user while its id field names somebody else
C3_Witness ==
  /\ rbac.pc = "returned"
  /\ rbac.scope = "Own"
  /\ rbac.result = "true"
  /\ call.entityRbacConfig.ownerField = "ownerId"
  /\ rbac.entityData.fields["ownerId"] = EvaluatedUser.id
  /\ rbac.entityData.fields["id"] # EvaluatedUser.id
  /\ rbac.entityData.fields["id"] # Undef

\* C4: for every payload the middleware of createRbacMiddleware hands to the
\* evaluator, a decision under scope Own on a payload that is null or lacks
\* the owner field is a denial and nothing is raised (stated for users that
\* have an id).
C4_MissingPayloadDenies ==
  Evaluated /\ call.kind = "middleware" /\ rbac.scope = "Own"
    /\ EvaluatedUser.id # Undef =>
    LET ownerField == IF call.entityRbacConfig.present
                          /\ call.entityRbacConfig.ownerField # Undef
                       THEN call.entityRbacConfig.ownerField
                       ELSE "id"
    IN  (rbac.entityData.kind # "object"
           \/ rbac.entityData.fields[ownerField] = Undef)
          => rbac.result = "false" /\ rbac.pc # "raised"

(***************************************************************************)
(* Properties of the route guard (SpecGuard)                               *)
(***************************************************************************)

NoTokenReply ==
  Reply401("Authentication required", "No authentication token provided")

JwtOnlyReply ==
  Reply401("Authentication method not allowed",
           "This endpoint only accepts JWT authentication")

ApiKeyOnlyReply ==
  Reply401("Authentication method not allowed",
           "This endpoint only accepts API key authentication")

CustomAuthReply ==
  Reply401("Authentication required", "Custom authentication failed")

\* the guard has finished and its credential resolution ran to completion
ResolutionCompleted == guard.pc = "done" /\ guard.validateKey # "throw"

\* C5: decision order. On a route with requireAuth not false and no
\* customAuth, once credential resolution has completed the guard answers
\* 401 "No authentication token provided" exactly when the auth context is
\* unauthenticated, also on jwtOnly / apiKeyOnly routes, where the
\* unauthenticated request never gets a method-mismatch message.
C5_UnauthenticatedFirst ==
  ResolutionCompleted /\ req.config.requireAuth # "false" /\ ~req.config.customAuth =>
    /\ guard.reply = NoTokenReply <=> ~guard.auth.isAuthenticated
    /\ ~guard.auth.isAuthenticated =>
          guard.outcome = "reject" /\ guard.sent
            /\ guard.reply # JwtOnlyReply /\ guard.reply # ApiKeyOnlyReply

\* a jwtOnly route answered "no token" to a request whose bearer token
\* failed verification
C5_Witness ==
  /\ guard.pc = "done"
  /\ req.config.jwtOnly
  /\ req.config.requireAuth # "false"
  /\ ~req.config.customAuth
  /\ guard.resolving
  /\ req.authorization.token = "tok-expired"
  /\ guard.reply = NoTokenReply

C7_OptOutAlwaysAllows ==
  guard.pc = "done" /\ req.config.requireAuth = "false" =>
    guard.outcome = "allow" /\ ~guard.sent /\ guard.reply = NoReply

\* C8: customAuth replaces the later checks. With customAuth configured and
\* requireAuth not false the guard allows exactly when customAuth resolved
\* true, and answers 401 "Custom authentication failed" when it resolved
\* false, whatever isAuthenticated, jwtOnly and apiKeyOnly are.
C8_CustomAuthReplaces ==
  guard.pc = "done" /\ req.config.customAuth /\ req.config.requireAuth # "false" =>
    /\ guard.outcome = "allow" <=> guard.customAuth = "true"
    /\ guard.customAuth = "false" =>
          guard.outcome = "reject" /\ guard.sent /\ guard.reply = CustomAuthReply
    /\ guard.reply \in {NoReply, CustomAuthReply}

\* customAuth admitted an unauthenticated request on a jwtOnly route
C8_Witness ==
  /\ guard.pc = "done"
  /\ req.config.customAuth
  /\ req.config.requireAuth # "false"
  /\ req.config.jwtOnly
  /\ ~guard.auth.isAuthenticated
  /\ guard.customAuth = "true"
  /\ guard.outcome = "allow"

C10_ValidatorFailClosed ==
  guard.pc = "done" /\ guard.validateKey = "throw" =>
    /\ guard.outcome # "raise"
    /\ ~guard.auth.isAuthenticated
    /\ req.config.requireAuth # "false" /\ ~req.config.customAuth =>
          guard.reply = NoTokenReply

(***************************************************************************)
(* Further properties of the RBAC evaluator (SpecRbac)                     *)
(***************************************************************************)

\* C11: a throwing custom predicate is fail-closed. When the decision is
\* made with scope Custom and customChecks[operation] throws or rejects, the
\* evaluator returns false and raises nothing; the RBAC middleware answers
\* 403 and does not call next.
C11_CustomCheckFailClosed ==
  Evaluated /\ rbac.scope = "Custom" /\ rbac.check = "throw" =>
    /\ rbac.result = "false"
    /\ rbac.pc # "raised"
    /\ call.kind = "middleware" =>
          rbac.status = 403 /\ rbac.sent /\ ~rbac.next

\* C16: Custom scope evaluation. When the decision is made with scope
\* Custom and customChecks[operation] is configured, the predicate is invoked
\* exactly once and the evaluator returns exactly the boolean it resolved to;
\* when no predicate is configured for the operation (also when the entity
\* has no RBAC configuration at all) the evaluator returns false, invokes
\* nothing and raises nothing.
C16_CustomScope ==
  Evaluated /\ rbac.scope = "Custom" =>
    LET configured == call.entityRbacConfig.present
                        /\ call.operation \in call.entityRbacConfig.customChecks
    IN  /\ configured =>
              /\ rbac.checks = 1
              /\ rbac.check \in {"true", "false"} =>
                    rbac.result = rbac.check /\ rbac.pc # "raised"
        /\ ~configured =>
              rbac.result = "false" /\ rbac.checks = 0 /\ rbac.pc # "raised"

\* a role whose global custom scope is Custom was denied on an entity
\* without any RBAC configuration, and nothing was invoked
C16_Witness ==
  /\ rbac.pc = "returned"
  /\ rbac.scope = "Custom"
  /\ ~call.entityRbacConfig.present
  /\ rbac.result = "false"
  /\ rbac.checks = 0

\* C19: RBAC denial response. When the RBAC middleware runs for an
\* authenticated user and checkRbacPermission returns false, it sends 403
\* with the body {error: "Forbidden", message: "Insufficient permissions",
\* statusCode: 403} and does not call next; when the evaluator returned
\* true it sends no 403 and calls next.
C19_DenialResponse ==
  call.kind = "middleware" /\ rbac.pc # "idle"
    /\ call.auth.isAuthenticated /\ call.auth.user.present =>
    /\ rbac.result = "false" =>
          /\ rbac.pc = "replied" /\ rbac.sent /\ ~rbac.next
          /\ rbac.status = 403
          /\ rbac.error = "Forbidden"
          /\ rbac.message = "Insufficient permissions"
          /\ rbac.statusCode = 403
    /\ rbac.result = "true" =>
          rbac.pc = "next" /\ rbac.next /\ ~rbac.sent /\ rbac.status # 403

\* a user with scope Own was answered 403 on an update of somebody else's
\* entity
C19_Witness ==
  /\ call.kind = "middleware"
  /\ call.operation = "update"
  /\ call.auth.user.role = "user"
  /\ rbac.scope = "Own"
  /\ rbac.entityData.kind = "object"
  /\ rbac.entityData.fields["id"] \in Ids
  /\ call.auth.user.id \in Ids
  /\ rbac.result = "false"
  /\ rbac.status = 403

\* C20 as stated: for role admin with no entity-level override, and whenever
\* the resolved scope is All, the evaluator returns true for every operation
\* and every payload without invoking a custom check.
C20_Original ==
  Evaluated =>
    LET ops == call.entityRbacConfig.operations
        entityDefined == call.entityRbacConfig.present /\ "admin" \in DOMAIN ops
                           /\ call.operation \in DOMAIN ops["admin"]
    IN  (rbac.scope = "All" \/ (EvaluatedUser.role = "admin" /\ ~entityDefined)) =>
          rbac.result = "true" /\ rbac.pc # "raised" /\ rbac.checks = 0

\* C20 amended: for role admin with neither an entity-level override nor a
\* global custom role entry for the operation, and whenever the resolved
\* scope is All, the evaluator returns true for every operation and every
\* payload (owned by somebody else, empty, null) without invoking a custom
\* check.
C20_AllIgnoresOwnership ==
  Evaluated =>
    LET ops == call.entityRbacConfig.operations
        entityDefined == call.entityRbacConfig.present /\ "admin" \in DOMAIN ops
                           /\ call.operation \in DOMAIN ops["admin"]
        customDefined == "admin" \in DOMAIN call.customRoles
                           /\ call.operation \in DOMAIN call.customRoles["admin"]
    IN  (rbac.scope = "All"
           \/ (EvaluatedUser.role = "admin" /\ ~entityDefined /\ ~customDefined)) =>
          rbac.result = "true" /\ rbac.pc # "raised" /\ rbac.checks = 0

\* an admin was allowed to delete with a null payload although the entity
\* configures custom checks
C20_Witness ==
  /\ rbac.pc = "returned"
  /\ EvaluatedUser.role = "admin"
  /\ call.operation = "delete"
  /\ rbac.entityData = JsNull
  /\ call.entityRbacConfig.customChecks = Ops
  /\ rbac.scope = "All"
  /\ rbac.result = "true"

(***************************************************************************)
(* Further properties of the route guard (SpecGuard)                       *)
(***************************************************************************)

\* the request carries no API-key header
NoKeyHeader == \A h \in KeyHeaderNames : req.keys[h] = Undef

\* the request carries no Authorization header
NoBearer == req.authorization.scheme = Undef

\* the request carries a bearer token that fails verification
InvalidBearer ==
  /\ req.authorization.scheme = "Bearer"
  /\ ~TokenTable[req.authorization.token].verifies

\* C12: invalid and absent credentials are indistinguishable. On a route
\* with requireAuth not false and no customAuth, a request that arrives
\* unauthenticated without an API key and either without a bearer token or
\* with a bearer token that fails verification never makes the guard raise,
\* never invokes a resolver callback, and ends in one and the same state:
\* unauthenticated and answered 401 "No authentication token provided"
\* (also on a jwtOnly route).
C12_InvalidLikeAbsent ==
  req.config.requireAuth # "false" /\ ~req.config.customAuth
    /\ ~req.auth.isAuthenticated /\ NoKeyHeader /\ (NoBearer \/ InvalidBearer) =>
    /\ guard.outcome # "raise"
    /\ ~guard.auth.isAuthenticated
    /\ ~guard.verified /\ ~guard.jwtUser
    /\ guard.extractUserCalls = 0 /\ guard.validateKeyCalls = 0
    /\ guard.pc = "done" =>
          /\ guard.auth = Unauthenticated
          /\ guard.outcome = "reject" /\ guard.sent
          /\ guard.reply = NoTokenReply

\* a jwtOnly route answered "no token" to a request whose bearer token has
\* a bad signature, with both strategies configured
C12_Witness ==
  /\ guard.pc = "done"
  /\ req.config.jwtOnly
  /\ req.config.requireAuth # "false" /\ ~req.config.customAuth
  /\ req.globalAuth.jwt /\ req.globalAuth.apiKey
  /\ guard.resolving
  /\ NoKeyHeader
  /\ req.authorization.token = "tok-badsig"
  /\ guard.reply = NoTokenReply

\* C18: issuer and audience constraints are enforced. When jwt.issuer or
\* jwt.audience is configured, a correctly signed, unexpired bearer token
\* whose iss or aud claim does not match resolves to no identity.
C18_IssuerAudienceEnforced ==
  /\ req.authorization.scheme = "Bearer"
  /\ \/ /\ req.globalAuth.issuer # Undef
        /\ TokenTable[req.authorization.token].iss # req.globalAuth.issuer
     \/ /\ req.globalAuth.audience # Undef
        /\ TokenTable[req.authorization.token].aud # req.globalAuth.audience
  => ~guard.jwtUser /\ guard.auth.authMethod # "jwt"

(***************************************************************************)
(* Properties of the hooks followed by the guard (SpecHooks)               *)
(***************************************************************************)

\* C17: AuthContext invariant. In every context a builder leaves on the
\* request (JWT hook, API-key hook, context-injection hook) and in every
\* context of the guard, isAuthenticated implies that a user is present; a
\* resolver that resolved null (or threw and was caught) wrote no context.
C17_AuthContextInvariant ==
  /\ req.auth.isAuthenticated => req.auth.user.present
  /\ guard.pc # "idle" => (guard.auth.isAuthenticated => guard.auth.user.present)
  /\ "jwt" \in hooks.wrote => hooks.extractUser \notin {"null", "throw"}
  /\ "api-key" \in hooks.wrote => hooks.validateKey = "user"
  /\ "context" \in hooks.wrote /\ hooks.ran[Len(hooks.ran)] = "context" =>
        req.auth = Unauthenticated
  /\ guard.pc # "idle" /\ guard.validateKey \in {"null", "throw"} =>
        ~guard.auth.isAuthenticated
  /\ guard.pc # "idle" /\ guard.extractUserCalls = 1 /\ ~guard.jwtUser =>
        guard.auth.authMethod # "jwt"

\* extractUser resolved null in the JWT hook, the context hook then wrote
\* the unauthenticated context, and the guard's own extractUser call
\* resolved a user
C17_Witness ==
  /\ hooks.extractUser = "null"
  /\ hooks.wrote = {"context"}
  /\ guard.pc = "done"
  /\ guard.extractUserCalls = 1
  /\ guard.jwtUser
  /\ guard.auth.isAuthenticated
  /\ guard.auth.user.present

(***************************************************************************)
(* Properties of the registered routes (SpecRoute)                         *)
(***************************************************************************)

\* authentication is enabled globally and the route has not opted out
GuardedRoute == req.globalAuth.enabled = "true" /\ req.config.requireAuth # "false"

\* C13: secure by default on every route. When authentication is enabled
\* globally and requireAuth is not false, every route (findAll, findOne,
\* create, update, delete, custom) runs the guard: a request is finished
\* only after the guard has decided, and the handler runs only if the guard
\* allowed; an unauthenticated request is answered by the guard's 401.
C13_SecureByDefault ==
  GuardedRoute =>
    /\ route.pc = "done" => guard.pc = "done"
    /\ route.handled => guard.pc = "done" /\ guard.outcome = "allow"
                          /\ guard.auth.isAuthenticated

\* C14: every guarded CRUD operation is authorized before it runs. With
\* RBAC enabled on a guarded create, update or delete route the handler
\* runs only after the RBAC middleware has evaluated the permission and the
\* evaluator returned true.
C14_AuthorizedBeforeRun ==
  GuardedRoute /\ route.rbac.enabled = "true"
    /\ route.kind \in {"create", "update", "delete"} /\ route.handled =>
    rbac.pc = "next" /\ rbac.result = "true"

\* C15: failures are terminal. Once the guard or the RBAC middleware has
\* sent its 401 or 403 the request is finished with that reply: no later
\* preHandler is run, the handler is not executed, and the RBAC middleware
\* has called next only when the evaluator returned true.
C15_FailuresTerminal ==
  /\ guard.pc # "idle" /\ guard.sent =>
        /\ guard.reply.status = 401
        /\ rbac.pc = "idle"
        /\ ~route.handled
        /\ route.pc = "done" => route.response = "guard"
  /\ rbac.sent =>
        /\ rbac.status \in {401, 403}
        /\ ~rbac.next
        /\ ~route.handled
        /\ route.pc = "done" => route.response = "rbac"
  /\ rbac.next => rbac.result = "true" /\ ~rbac.sent
  /\ route.handled => route.response = "handler"

\* the create route finished with the RBAC middleware's 403 after the guard
\* had allowed the request
C15_Witness ==
  /\ route.pc = "done"
  /\ route.kind = "create"
  /\ guard.pc = "done"
  /\ guard.outcome = "allow"
  /\ rbac.sent
  /\ rbac.status = 403
  /\ route.response = "rbac"
  /\ ~route.handled

(***************************************************************************)
(* Properties of the RBAC evaluator, continued (SpecRbac)                  *)
(***************************************************************************)

\* C26: precedence is resolved per operation. A global custom role that
\* names the user's role but not the operation leaves the built-in scope of
\* that role and operation in force; an entity-level entry that names the
\* role but not the operation leaves the global custom scope, and failing
\* that the built-in scope, in force.
C26_PerOperationPrecedence ==
  Evaluated =>
    LET role == IF EvaluatedUser.role # Undef THEN EvaluatedUser.role ELSE "user"
        o == call.operation
        ops == call.entityRbacConfig.operations
        entityNamesRole == call.entityRbacConfig.present /\ role \in DOMAIN ops
        entityDefined == entityNamesRole /\ o \in DOMAIN ops[role]
        customNamesRole == role \in DOMAIN call.customRoles
        customDefined == customNamesRole /\ o \in DOMAIN call.customRoles[role]
        builtin == IF role \in {"user", "admin"} THEN DEFAULT_ROLES[role][o] ELSE Undef
    IN  /\ customNamesRole /\ ~customDefined /\ ~entityDefined =>
              rbac.scope = builtin
        /\ entityNamesRole /\ ~entityDefined =>
              rbac.scope = IF customDefined THEN call.customRoles[role][o].scope
                           ELSE builtin

\* custom roles redefine one operation of the built-in role user, and
\* another operation was decided with user's built-in scope
C26_Witness ==
  /\ rbac.pc = "returned"
  /\ call.kind = "direct"
  /\ call.user.role = "user"
  /\ "user" \in DOMAIN call.customRoles
  /\ DOMAIN call.customRoles["user"] = {"read"}
  /\ call.operation = "update"
  /\ call.entityRbacConfig.operations = EmptyTable
  /\ rbac.scope = "Own"

\* C28: a caller without an identity never passes an ownership check. When
\* the decision is made with scope Own for a user whose id is absent, the
\* evaluator returns false for every object payload, also for one that
\* lacks the owner field.
C28_NoIdNeverOwns ==
  Evaluated /\ rbac.scope = "Own" /\ EvaluatedUser.id = Undef
    /\ rbac.entityData.kind = "object" =>
    rbac.result = "false"

(***************************************************************************)
(* Properties of the route guard, continued (SpecGuard)                    *)
(***************************************************************************)

\* the API-key header the configuration designates, and its value
DesignatedHeader ==
  IF req.globalAuth.headerName # Undef THEN req.globalAuth.headerName ELSE "x-api-key"

DesignatedKey == req.keys[DesignatedHeader]

\* C24: API-key fall-through. When the guard resolves credentials and the
\* JWT step yielded no identity (no bearer header, verification failure, or
\* extractUser resolving null), an API-key strategy is configured and the
\* designated header is present, validateKey is invoked once; a returned
\* user gives an authenticated context with authMethod 'api-key' carrying
\* the key, and a returned null leaves the context unauthenticated.
C24_ApiKeyFallThrough ==
  guard.pc \in {"decide", "done"} /\ guard.resolving /\ ~guard.jwtUser
    /\ req.globalAuth.apiKey /\ DesignatedKey # Undef =>
    /\ guard.validateKeyCalls = 1
    /\ guard.validateKey = "user" =>
          /\ guard.auth.isAuthenticated /\ guard.auth.user.present
          /\ guard.auth.authMethod = "api-key"
          /\ guard.auth.apiKey = DesignatedKey
          /\ guard.auth.token = Undef
    /\ guard.validateKey = "null" => ~guard.auth.isAuthenticated

\* extractUser resolved null for a verified token and the key in the
\* configured custom header then authenticated the request
C24_Witness ==
  /\ guard.pc = "done"
  /\ guard.verified
  /\ guard.extractUserCalls = 1
  /\ ~guard.jwtUser
  /\ req.globalAuth.headerName = "x-custom-key"
  /\ guard.validateKey = "user"
  /\ guard.auth.authMethod = "api-key"
  /\ guard.outcome = "allow"

MethodConsistent(a) ==
  /\ a.authMethod = "jwt" <=> a.token # Undef
  /\ a.authMethod = "api-key" <=> a.apiKey # Undef
  /\ ~(a.token # Undef /\ a.apiKey # Undef)
  /\ a.authMethod \in {"jwt", "api-key", Undef}
  /\ ~a.isAuthenticated =>
        /\ ~a.user.present
        /\ a.token = Undef /\ a.apiKey = Undef /\ a.authMethod = Undef

\* C27: credential/method consistency. In every context the hooks leave on
\* the request and in every context of the guard, authMethod is 'jwt'
\* exactly when token is set (and apiKey is not), 'api-key' exactly when
\* apiKey is set (and token is not), and an unauthenticated context
\* carries no user, token, apiKey or authMethod.
C27_MethodConsistency ==
  /\ MethodConsistent(req.auth)
  /\ guard.pc # "idle" => MethodConsistent(guard.auth)

\* the API-key hook replaced the context the JWT hook had written
C27_Witness ==
  /\ Len(hooks.ran) >= 2
  /\ hooks.ran[1] = "jwt"
  /\ hooks.ran[2] = "api-key"
  /\ hooks.wrote = {"jwt", "api-key"}
  /\ req.auth.authMethod = "api-key"
  /\ req.auth.token = Undef

(***************************************************************************)
(* Properties of the registered routes, continued (SpecRoute)              *)
(***************************************************************************)

\* auth.enabled is omitted, a strategy is configured and the route has not
\* opted out
AutoEnabledRoute ==
  /\ req.globalAuth.present /\ req.globalAuth.enabled = Undef
  /\ req.globalAuth.jwt \/ req.globalAuth.apiKey
  /\ req.config.requireAuth # "false"

\* C23: authentication is enabled whenever a strategy is configured. With
\* auth.enabled omitted and a strategy configured, the findAll, create,
\* update and delete routes of an entity that has not opted out all run
\* the guard, the guard resolves the credential, so that a valid bearer
\* token authenticates and is admitted (on a route without method
\* restriction or customAuth), and a request without credentials gets the
\* 401 and does not reach the handler.
C23_EnabledWhenConfigured ==
  AutoEnabledRoute /\ route.pc = "done"
    /\ route.kind \in {"findAll", "create", "update", "delete"} =>
    /\ guard.pc = "done"
    /\ req.globalAuth.jwt /\ req.authorization.token \in {"tok-sub", "tok-admin"}
          /\ ~req.config.apiKeyOnly /\ ~req.config.customAuth =>
          guard.auth.isAuthenticated /\ guard.outcome = "allow"
    /\ NoBearer /\ NoKeyHeader /\ ~req.config.customAuth =>
          guard.reply = NoTokenReply /\ ~route.handled

\* C25: the evaluator is never reached without a user. Whenever the RBAC
\* middleware runs on a request whose context is unauthenticated or has no
\* user, also one that the guard let through, it answers 401 before any
\* scope is resolved or predicate called, and the handler does not run;
\* every evaluation was made for a present user.
C25_NoEvaluationWithoutUser ==
  rbac.pc # "idle" =>
    /\ ~call.auth.isAuthenticated \/ ~call.auth.user.present =>
          /\ rbac.pc = "replied" /\ rbac.sent
          /\ rbac.status = 401 /\ rbac.error = "Unauthorized"
          /\ rbac.result = Undef /\ rbac.scope = Undef /\ rbac.checks = 0
          /\ ~route.handled
    /\ rbac.result # Undef =>
          call.auth.isAuthenticated /\ call.auth.user.present

\* customAuth let an unauthenticated request pass the guard of the create
\* route, and the RBAC middleware answered 401
C25_Witness ==
  /\ route.pc = "done"
  /\ guard.pc = "done"
  /\ guard.customAuth = "true"
  /\ guard.outcome = "allow"
  /\ ~guard.auth.isAuthenticated
  /\ rbac.status = 401
  /\ route.response = "rbac"
  /\ ~route.handled

(***************************************************************************)
(* Properties of the two context builders (SpecAgree)                      *)
(***************************************************************************)

\* every configured hook has run, in the registration order
HooksRanInOrder ==
  /\ hooks.pending = {}
  /\ hooks.ran = SelectSeq(HookOrder, LAMBDA h : h \in ConfiguredHooks(req.globalAuth))

\* extractUser and validateKey behaved alike for the guard and for the hooks
SameCallbackBehaviour ==
  /\ guard.validateKey # Undef /\ hooks.validateKey # Undef =>
        guard.validateKey = hooks.validateKey
  /\ guard.extractUserCalls = 1 /\ hooks.extractUser # Undef =>
        (guard.jwtUser <=> hooks.extractUser = "user")

\* C30: the two ways of building the auth context agree. For a request and
\* one jwt/apiKey configuration, the hooks run in order (JWT, API key,
\* context injection) leave a context with the same isAuthenticated and
\* authMethod as the guard's inline resolution started from an empty
\* context, the callbacks behaving alike in both.
C30_BuildersAgree ==
  guard.pc = "done" /\ HooksRanInOrder /\ SameCallbackBehaviour =>
    /\ req.auth.isAuthenticated = guard.auth.isAuthenticated
    /\ req.auth.authMethod = guard.auth.authMethod

(***************************************************************************)
(* Properties of the built-in table (SpecRoles)                            *)
(***************************************************************************)

\* C22: the built-in role table is read-only for the life of the process.
\* After any calls of getRolePermission, checkRbacPermission,
\* createRbacMiddleware and getDefaultRoles, and after any change a caller
\* makes to the value getDefaultRoles returned (adding a role, altering a
\* role's permission entries), the built-in entries are user = {create Own,
\* read All, update Own, delete Own} and admin = All everywhere, and a later
\* decision resolves the scope it resolved before.
C22_BuiltinsReadOnly ==
  /\ roles.objects = DEFAULT_ROLES
  /\ rbac.pc \in {"returned", "replied", "next"} /\ rbac.scope # Undef =>
        LET user == IF call.kind = "direct" THEN call.user ELSE call.auth.user
        IN  /\ user.role \in DOMAIN DEFAULT_ROLES
            /\ rbac.scope = DEFAULT_ROLES[user.role][call.operation]

(***************************************************************************)
(* Properties of two requests in flight (SpecPair)                         *)
(***************************************************************************)

\* the two requests in flight: the running one and the suspended one
BothInFlight == {InFlight(call, rbac, req, guard, route), peer}

\* the context of request x holds nothing but what x's own headers give
OwnContext(x) ==
  x.guard.pc \notin {"idle", "enter"} =>
    LET a == x.guard.auth
        h == x.req.authorization
        k == x.req.keys["x-api-key"]
    IN  /\ a.token \in {Undef, h.token}
        /\ a.apiKey \in {Undef, k}
        /\ a.isAuthenticated => a.authMethod \in {"jwt", "api-key"}
        /\ ~a.isAuthenticated => ~a.user.present
        /\ a.authMethod = "jwt" =>
              /\ h.scheme = "Bearer" /\ a.token = h.token
              /\ TokenTable[h.token].verifies
              /\ a.user = DefaultJwtUser(TokenTable[h.token])
        /\ a.authMethod = "api-key" =>
              /\ k # Undef /\ a.apiKey = k
              /\ x.guard.validateKey = "user"

\* the decision on request x follows from x's own context and headers
OwnDecision(x) ==
  /\ x.guard.pc = "done" /\ x.guard.outcome # "raise" /\ x.guard.customAuth = Undef =>
        LET d == GuardDecision(x.req.config, x.guard.auth, "true")
        IN  x.guard.outcome = d.outcome /\ x.guard.reply = d.reply
  /\ x.rbac.pc # "idle" =>
        /\ x.call.auth = x.guard.auth
        /\ x.call.params = x.route.params /\ x.call.body = x.route.body
  /\ x.route.pc = "done" /\ ~x.req.config.customAuth
       /\ x.req.authorization.scheme = Undef /\ x.req.keys["x-api-key"] = Undef =>
        /\ x.route.response = "guard"
        /\ x.guard.reply.status = 401
        /\ x.rbac.pc = "idle"
  /\ x.route.handled =>
        /\ x.guard.pc = "done" /\ x.guard.outcome = "allow"
        /\ x.rbac.pc = "next"

====
